---- MODULE Spec2Model ----
(***************************************************************************)
(* Protocol v1 packet framing (src/src/lib.rs): Packet::from_source,       *)
(* Packet::serialize, Packet::deserialize, the PacketSerializer iterator   *)
(* and the Packetable implementation for String.                           *)
(*                                                                         *)
(* A byte slice is a sequence of integers in 0..255.  Sequences are        *)
(* 1-indexed here, so the Rust slice bytes[a..b] is SubSeq(bytes, a+1, b). *)
(* Positions that the caller names (the index of a replaced byte) are kept *)
(* 0-based as in the source.                                               *)
(***************************************************************************)
EXTENDS Integers, Sequences, FiniteSets, TLC

VARIABLES
    source,           \* the caller's byte buffer (a String's bytes, or a raw &[u8])
    packet_size,      \* the chunk size handed to from_source / to_packets
    pc,               \* the caller's position
    built,            \* Option<(Packet, remainder)>: what from_source returned
    remaining_bytes,  \* PacketSerializer.remaining_bytes
    yielded,          \* payloads of the Packets next() has yielded so far, in order
    last,             \* Option<Packet>: what the latest next() returned
    bytes,            \* the wire buffer the caller holds
    origin,           \* how the wire buffer came to be: "frame", "data", "raw", "none"
    tampered,         \* Option<[index, old, new]>: the byte the caller replaced
    result            \* what the latest decode call returned

vars == <<source, packet_size, pc, built, remaining_bytes, yielded, last,
          bytes, origin, tampered, result>>

----------------------------------------------------------------------------
(* Bounds of the model *)

MaxLen == 4       \* longest source buffer
MaxSize == 4      \* largest chunk size
MaxRaw == 8       \* longest raw wire buffer handed straight to the decoders

\* Byte values of source buffers: NUL, 'a', and the two bytes of U+0434
\* (0xD0 0xB4), a two-byte UTF-8 character.
Bytes == {0, 97, 208, 180}

\* Byte values of raw wire buffers.
RawBytes == {0, 1, 97}

\* Values a caller writes over one byte of a wire buffer.
TamperVals == Bytes \cup (0..(MaxLen + 1))

RECURSIVE SeqsUpTo(_, _)
SeqsUpTo(S, n) ==
    IF n = 0 THEN {<<>>}
    ELSE LET shorter == SeqsUpTo(S, n - 1)
         IN  shorter \cup {Append(s, b) : s \in {t \in shorter : Len(t) = n - 1}, b \in S}

----------------------------------------------------------------------------
(* Option and Result *)

None == [tag |-> "None"]
Some(x) == [tag |-> "Some", val |-> x]

Err(e) == [ok |-> FALSE, err |-> e]
Ok(v) == [ok |-> TRUE, val |-> v]

----------------------------------------------------------------------------
(* Slices *)

\* &s[from..] for a 0-based from
SliceFrom(s, from) == SubSeq(s, from + 1, Len(s))

\* &s[from..to] for 0-based from, exclusive to
Slice(s, from, to) == SubSeq(s, from + 1, to)

\* A u32 is kept as its two 16-bit halves [hi, lo], so that the sum wraps at
\* 2^32 as u32 addition does.
AddU32(acc, byte) ==
    LET lo == acc.lo + byte
    IN  [hi |-> (acc.hi + (lo \div 65536)) % 65536, lo |-> lo % 65536]

RECURSIVE SumBytes(_, _)
\* payload.iter().map(|&byte| byte as u32).sum()
SumBytes(payload, acc) ==
    IF payload = <<>> THEN acc
    ELSE SumBytes(Tail(payload), AddU32(acc, Head(payload)))

\* u32::to_be_bytes
to_be_bytes(n) ==
    << n.hi \div 256, n.hi % 256, n.lo \div 256, n.lo % 256 >>

find_checksum(payload) == to_be_bytes(SumBytes(payload, [hi |-> 0, lo |-> 0]))

----------------------------------------------------------------------------
(* Packet *)

Panic == [panic |-> TRUE]

\* from_source with the remainder starting one byte too far
from_source_skip(src, size) ==
    LET source_length == Len(src)
        taken == source_length > size
        pl == IF taken THEN Slice(src, 0, size) ELSE src
    IN  [packet |-> [version |-> 1,
                     size |-> IF taken THEN size ELSE source_length,
                     payload |-> pl,
                     checksum |-> find_checksum(pl)],
         remainder |-> IF taken THEN SliceFrom(src, size + 1) ELSE <<>>]

\* from_source that records the requested size instead of the clamped one
from_source_unclamped(src, size) ==
    LET source_length == Len(src)
        taken == source_length > size
        pl == IF taken THEN Slice(src, 0, size) ELSE src
    IN  [packet |-> [version |-> 1,
                     size |-> size,
                     payload |-> pl,
                     checksum |-> find_checksum(pl)],
         remainder |-> IF taken THEN SliceFrom(src, size) ELSE <<>>]

from_source(src, size) ==
    IF size = 0 THEN Panic
    ELSE LET source_length == Len(src)
             taken == source_length > size
             payload == IF taken THEN Slice(src, 0, size) ELSE src
             remainder == IF taken THEN SliceFrom(src, size) ELSE <<>>
             parsed_size == IF taken THEN size ELSE source_length
         IN  [packet |-> [version |-> 1,
                          size |-> parsed_size,
                          payload |-> payload,
                          checksum |-> find_checksum(payload)],
              remainder |-> remainder]

payload(p) == p.payload

serialize(p) == <<p.version, p.size>> \o p.payload \o p.checksum

\* The tail of deserialize once version and size have been accepted
DecodeBody(bs, size, verify) ==
    LET pl == Slice(bs, 2, size + 2)
        checksum_to_check == Slice(bs, size + 2, size + 6)
        checksum == find_checksum(pl)
    IN  IF verify /\ checksum # checksum_to_check THEN Err("InvalidChecksum")
        ELSE Ok([packet |-> [version |-> 1, size |-> size,
                             payload |-> pl, checksum |-> checksum],
                 remainder |-> SliceFrom(bs, size + 6)])

\* deserialize rejecting a frame that fills the buffer exactly (>= for >)
deserialize_ge(bs) ==
    IF Len(bs) < 6 THEN Err("InvalidPacket")
    ELSE IF bs[1] # 1 THEN Err("UnknownProtocolVersion")
    ELSE IF bs[2] >= Len(bs) - 6 THEN Err("InvalidPacket")
    ELSE DecodeBody(bs, bs[2], TRUE)

\* deserialize checking the size before the version
deserialize_sizefirst(bs) ==
    IF Len(bs) < 6 THEN Err("InvalidPacket")
    ELSE IF bs[2] > Len(bs) - 6 THEN Err("InvalidPacket")
    ELSE IF bs[1] # 1 THEN Err("UnknownProtocolVersion")
    ELSE DecodeBody(bs, bs[2], TRUE)

\* deserialize demanding that the declared size fills the buffer exactly
deserialize_exact(bs) ==
    IF Len(bs) < 6 THEN Err("InvalidPacket")
    ELSE IF bs[1] # 1 THEN Err("UnknownProtocolVersion")
    ELSE IF bs[2] # Len(bs) - 6 THEN Err("InvalidPacket")
    ELSE DecodeBody(bs, bs[2], TRUE)

\* deserialize reporting an overrunning size as a checksum failure
deserialize_wrongerr(bs) ==
    IF Len(bs) < 6 THEN Err("InvalidPacket")
    ELSE IF bs[1] # 1 THEN Err("UnknownProtocolVersion")
    ELSE IF bs[2] > Len(bs) - 6 THEN Err("InvalidChecksum")
    ELSE DecodeBody(bs, bs[2], TRUE)

\* deserialize that never compares the checksums
deserialize_nocheck(bs) ==
    IF Len(bs) < 6 THEN Err("InvalidPacket")
    ELSE IF bs[1] # 1 THEN Err("UnknownProtocolVersion")
    ELSE IF bs[2] > Len(bs) - 6 THEN Err("InvalidPacket")
    ELSE DecodeBody(bs, bs[2], FALSE)

deserialize(bs) ==
    LET byte_count == Len(bs) IN
    IF byte_count < 6 THEN Err("InvalidPacket")
    ELSE IF bs[1] # 1 THEN Err("UnknownProtocolVersion")
    ELSE LET size == bs[2] IN
         IF size > byte_count - 6 THEN Err("InvalidPacket")
         ELSE LET pl == Slice(bs, 2, size + 2)
                  checksum_to_check == Slice(bs, size + 2, size + 6)
                  checksum == find_checksum(pl)
              IN  IF checksum # checksum_to_check THEN Err("InvalidChecksum")
                  ELSE Ok([packet |-> [version |-> 1,
                                       size |-> size,
                                       payload |-> pl,
                                       checksum |-> checksum],
                           remainder |-> SliceFrom(bs, size + 6)])

----------------------------------------------------------------------------
(* std::str::from_utf8, as the decoder uses it: well-formed UTF-8 byte      *)
(* sequences (Unicode table 3-7).                                          *)

IsCont(b) == b \in 128..191

RECURSIVE ValidUtf8From(_, _)
ValidUtf8From(b, i) ==
    IF i > Len(b) THEN TRUE
    ELSE LET first == b[i]
             has(k) == i + k <= Len(b)
         IN  IF first < 128 THEN ValidUtf8From(b, i + 1)
             ELSE IF first \in 194..223
                  THEN has(1) /\ IsCont(b[i + 1]) /\ ValidUtf8From(b, i + 2)
             ELSE IF first \in 224..239
                  THEN /\ has(2)
                       /\ \/ first = 224 /\ b[i + 1] \in 160..191
                          \/ first \in 225..236 /\ IsCont(b[i + 1])
                          \/ first = 237 /\ b[i + 1] \in 128..159
                          \/ first \in 238..239 /\ IsCont(b[i + 1])
                       /\ IsCont(b[i + 2])
                       /\ ValidUtf8From(b, i + 3)
             ELSE IF first \in 240..244
                  THEN /\ has(3)
                       /\ \/ first = 240 /\ b[i + 1] \in 144..191
                          \/ first \in 241..243 /\ IsCont(b[i + 1])
                          \/ first = 244 /\ b[i + 1] \in 128..143
                       /\ IsCont(b[i + 2])
                       /\ IsCont(b[i + 3])
                       /\ ValidUtf8From(b, i + 4)
             ELSE FALSE

from_utf8(b) == IF ValidUtf8From(b, 1) THEN Ok(b) ELSE Err("CorruptedMessage")

----------------------------------------------------------------------------
(* PacketSerializer *)

\* next stopping one byte early (<= 1 for == 0)
next_early(self) ==
    IF Len(self.remaining_bytes) <= 1
    THEN [item |-> None, self |-> self]
    ELSE LET r == from_source(self.remaining_bytes, self.packet_size)
         IN  [item |-> Some(r.packet),
              self |-> [self EXCEPT !.remaining_bytes = r.remainder]]

\* Iterator::next on a serializer [packet_size, remaining_bytes]:
\* the item and the serializer afterwards
next(self) ==
    IF Len(self.remaining_bytes) = 0
    THEN [item |-> None, self |-> self]
    ELSE LET r == from_source(self.remaining_bytes, self.packet_size)
         IN  [item |-> Some(r.packet),
              self |-> [self EXCEPT !.remaining_bytes = r.remainder]]

----------------------------------------------------------------------------
(* Packetable for String; a String is its (valid UTF-8) bytes *)

to_packets(s, size) == [packet_size |-> size, remaining_bytes |-> s]

RECURSIVE drain(_, _)
\* for packet in packet_serializer { serialized_data.extend(packet.serialize()) }
drain(serializer, serialized_data) ==
    LET n == next(serializer) IN
    IF n.item = None THEN serialized_data
    ELSE drain(n.self, serialized_data \o serialize(n.item.val))

to_packet_data(s, size) == drain(to_packets(s, size), <<>>)

RECURSIVE decode_loop(_, _)
\* while remaining_data.len() > 0 { deserialize?; from_utf8?; push_str }
decode_loop(remaining_data, content) ==
    IF Len(remaining_data) = 0 THEN Ok(content)
    ELSE LET d == deserialize(remaining_data) IN
         IF ~d.ok THEN d
         ELSE LET parsed_payload == from_utf8(payload(d.val.packet)) IN
              IF ~parsed_payload.ok THEN parsed_payload
              ELSE decode_loop(d.val.remainder, content \o parsed_payload.val)

from_packet_data(packet_data) == decode_loop(packet_data, <<>>)

----------------------------------------------------------------------------
(* The caller *)

NoResult == [op |-> "none"]

InitCaller ==
    /\ source \in SeqsUpTo(Bytes, MaxLen)
    /\ packet_size \in 1..MaxSize
    /\ pc = "start"
    /\ bytes = <<>>
    /\ origin = "none"

InitRaw ==
    /\ source = <<>>
    /\ packet_size = 1
    /\ pc = "wire"
    /\ bytes \in SeqsUpTo(RawBytes, MaxRaw)
    /\ origin = "raw"

Init ==
    /\ InitCaller \/ InitRaw
    /\ built = None
    /\ remaining_bytes = <<>>
    /\ yielded = <<>>
    /\ last = None
    /\ tampered = None
    /\ result = NoResult

\* let (packet, remainder) = Packet::from_source(source, packet_size)
FromSource ==
    /\ pc = "start"
    /\ built' = Some(from_source(source, packet_size))
    /\ pc' = "built"
    /\ UNCHANGED <<source, packet_size, remaining_bytes, yielded, last,
                   bytes, origin, tampered, result>>

\* let serialized = packet.serialize()
Serialize ==
    /\ pc = "built"
    /\ bytes' = serialize(built.val.packet)
    /\ origin' = "frame"
    /\ pc' = "wire"
    /\ UNCHANGED <<source, packet_size, built, remaining_bytes, yielded, last,
                   tampered, result>>

\* let mut serializer = string.to_packets(packet_size)
ToPackets ==
    /\ pc = "start"
    /\ from_utf8(source).ok
    /\ remaining_bytes' = to_packets(source, packet_size).remaining_bytes
    /\ pc' = "iter"
    /\ UNCHANGED <<source, packet_size, built, yielded, last,
                   bytes, origin, tampered, result>>

\* serializer.next()
IterNext ==
    /\ pc = "iter"
    /\ LET n == next([packet_size |-> packet_size,
                      remaining_bytes |-> remaining_bytes])
       IN  /\ last' = n.item
           /\ remaining_bytes' = n.self.remaining_bytes
           /\ yielded' = IF n.item = None THEN yielded
                         ELSE Append(yielded, payload(n.item.val))
    /\ UNCHANGED <<source, packet_size, pc, built, bytes, origin, tampered, result>>

\* let mut packet_data = string.to_packet_data(packet_size)
ToPacketData ==
    /\ pc = "start"
    /\ from_utf8(source).ok
    /\ bytes' = to_packet_data(source, packet_size)
    /\ origin' = "data"
    /\ pc' = "wire"
    /\ UNCHANGED <<source, packet_size, built, remaining_bytes, yielded, last,
                   tampered, result>>

\* packet_data[index] = value
Tamper(index, value) ==
    /\ pc = "wire"
    /\ origin \in {"frame", "data"}
    /\ tampered = None
    /\ index < Len(bytes)
    /\ bytes[index + 1] # value
    /\ bytes' = [bytes EXCEPT ![index + 1] = value]
    /\ tampered' = Some([index |-> index, old |-> bytes[index + 1], new |-> value])
    /\ UNCHANGED <<source, packet_size, pc, built, remaining_bytes, yielded, last,
                   origin, result>>

\* Packet::deserialize(&bytes)
Deserialize ==
    /\ pc = "wire"
    /\ result' = [op |-> "deserialize", res |-> deserialize(bytes)]
    /\ pc' = "decoded"
    /\ UNCHANGED <<source, packet_size, built, remaining_bytes, yielded, last,
                   bytes, origin, tampered>>

\* String::from_packet_data(&bytes)
FromPacketData ==
    /\ pc = "wire"
    /\ result' = [op |-> "from_packet_data", res |-> from_packet_data(bytes)]
    /\ pc' = "decoded"
    /\ UNCHANGED <<source, packet_size, built, remaining_bytes, yielded, last,
                   bytes, origin, tampered>>

Next ==
    \/ FromSource
    \/ Serialize
    \/ ToPackets
    \/ IterNext
    \/ ToPacketData
    \/ \E index \in 0..(Len(bytes) - 1), value \in TamperVals : Tamper(index, value)
    \/ Deserialize
    \/ FromPacketData

Spec == Init /\ [][Next]_vars

----------------------------------------------------------------------------
(* Properties *)

Min(a, b) == IF a < b THEN a ELSE b

Ceil(n, c) == (n + c - 1) \div c

RECURSIVE Concat(_)
Concat(seqs) == IF seqs = <<>> THEN <<>> ELSE Head(seqs) \o Concat(Tail(seqs))

RECURSIVE PlainSum(_)
PlainSum(s) == IF s = <<>> THEN 0 ELSE Head(s) + PlainSum(Tail(s))

\* The four bytes of n, most significant first, for 0 <= n < 2^31
BigEndian4(n) ==
    << (n \div 16777216) % 256, (n \div 65536) % 256, (n \div 256) % 256, n % 256 >>

Decoded(op) == pc = "decoded" /\ result.op = op

\* The caller replaced the byte at `index` of a buffer made the `from` way
Replaced(from, index) ==
    /\ origin = from
    /\ tampered # None
    /\ tampered.val.index = index

\* C1: round trip.  For every valid UTF-8 text S and every chunk size,
\* String::from_packet_data(S.to_packet_data(size)) succeeds and returns S.
C1_RoundTrip ==
    (Decoded("from_packet_data") /\ origin = "data" /\ tampered = None)
        => (result.res.ok /\ result.res.val = source)

\* C2: decode idempotence.  For every byte source and chunk size, with p the
\* Packet from_source returns, deserialize(p.serialize()) succeeds, its
\* payload equals p.payload() and the remainder is empty.
C2_DecodeIdempotence ==
    (Decoded("deserialize") /\ origin = "frame" /\ tampered = None)
        => /\ result.res.ok
           /\ payload(result.res.val.packet) = payload(built.val.packet)
           /\ result.res.val.remainder = <<>>

C2_Witness ==
    /\ Decoded("deserialize") /\ origin = "frame" /\ tampered = None
    /\ result.res.ok
    /\ Len(source) > packet_size
    /\ Len(payload(result.res.val.packet)) = packet_size

\* C3: from_source returns as payload the first min(chunk_size, length) bytes
\* of the source and as remainder exactly the rest; when the chunk size is at
\* least the length the payload is the whole source and the remainder empty.
C3_FromSourceSplits ==
    built # None =>
        LET p == payload(built.val.packet)
            r == built.val.remainder
            n == Min(packet_size, Len(source))
        IN  /\ Len(p) = n
            /\ p = SubSeq(source, 1, n)
            /\ r = SubSeq(source, n + 1, Len(source))
            /\ p \o r = source
            /\ packet_size >= Len(source) => (p = source /\ r = <<>>)

C3_Witness ==
    /\ built # None
    /\ Len(built.val.remainder) >= 2
    /\ Len(payload(built.val.packet)) = packet_size

\* C4: serialize() of a Packet built by from_source is [1, n] followed by the
\* payload followed by the 4-byte big-endian sum of the payload bytes, n being
\* the payload length; the length is 6 + n and the second byte is the actual
\* payload length even when the requested chunk size exceeds the source.
C4_SerializeLayout ==
    (origin = "frame" /\ tampered = None) =>
        LET p == payload(built.val.packet)
            n == Min(packet_size, Len(source))
        IN  /\ Len(p) = n
            /\ bytes = <<1, n>> \o p \o BigEndian4(PlainSum(p))
            /\ Len(bytes) = 6 + n
            /\ bytes[2] = Len(p)

C4_Witness ==
    /\ origin = "frame" /\ tampered = None
    /\ packet_size > Len(source)
    /\ Len(source) >= 2
    /\ bytes[2] = Len(source)
    /\ bytes[Len(bytes) - 1] # 0

\* C5: version precedence.  Every buffer of at least 6 bytes whose first byte
\* is not 1 makes deserialize fail with UnknownProtocolVersion, whatever the
\* size, payload and checksum bytes are.
C5_VersionPrecedence ==
    (Decoded("deserialize") /\ Len(bytes) >= 6 /\ bytes[1] # 1)
        => result.res = Err("UnknownProtocolVersion")

C5_Witness ==
    /\ Decoded("deserialize") /\ origin = "raw"
    /\ Len(bytes) >= 6 /\ bytes[1] # 1
    /\ bytes[2] > Len(bytes) - 6
    /\ result.res = Err("UnknownProtocolVersion")

\* The size byte of a serialized Packet was replaced by a smaller value and
\* the bytes were handed to deserialize.
SizeUnderstated ==
    /\ Decoded("deserialize")
    /\ Replaced("frame", 1)
    /\ tampered.val.new < tampered.val.old

SizeOverstated ==
    /\ pc = "decoded"
    /\ Replaced("data", 1)
    /\ tampered.val.new > tampered.val.old

PayloadByteReplaced ==
    /\ pc = "decoded"
    /\ origin \in {"frame", "data"}
    /\ tampered # None
    /\ tampered.val.index >= 2
    /\ tampered.val.index <= 2 + bytes[2] - 1

\* C8: checksum tamper detection.  Replacing any single payload byte of a
\* serialized frame by a different value makes deserialize, and
\* from_packet_data when the frame is the first of the buffer, fail with
\* InvalidChecksum.
C8_TamperDetected ==
    PayloadByteReplaced => result.res = Err("InvalidChecksum")

C8_Witness ==
    /\ PayloadByteReplaced
    /\ origin = "data"
    /\ result.op = "from_packet_data"
    /\ Len(bytes) > 6 + bytes[2]
    /\ tampered.val.index = 3
    /\ result.res = Err("InvalidChecksum")

RECURSIVE FrameWalk(_, _)
\* Every frame of the buffer decoded in turn: the first decode error, or the
\* concatenation of all payloads
FrameWalk(bs, acc) ==
    IF bs = <<>> THEN Ok(acc)
    ELSE LET d == deserialize(bs) IN
         IF ~d.ok THEN d
         ELSE FrameWalk(d.val.remainder, acc \o payload(d.val.packet))

\* C9: from_packet_data returns the first failing frame's decode error if a
\* frame fails to decode; otherwise CorruptedMessage exactly when the
\* concatenation of all payloads is not valid UTF-8, and otherwise that text,
\* even when one frame's payload alone is not valid UTF-8.
C9_CorruptedOnlyAtEnd ==
    Decoded("from_packet_data") =>
        LET w == FrameWalk(bytes, <<>>)
        IN  result.res = IF ~w.ok THEN w ELSE from_utf8(w.val)

\* The state the chunking sequence is in agrees with the source
ChunkingInv ==
    pc = "iter" =>
        LET k == Ceil(Len(source), packet_size) IN
        /\ Concat(yielded) \o remaining_bytes = source
        /\ Len(yielded) <= k
        /\ \A i \in 1..Len(yielded) :
               /\ Len(yielded[i]) >= 1
               /\ i < k => Len(yielded[i]) = packet_size
        /\ source = <<>> => yielded = <<>>
        /\ last = None => (remaining_bytes = <<>> \/ yielded = <<>>)

\* A pull yields a Packet while fewer than ceil(n / c) have been yielded, and
\* nothing afterwards
ChunkingStep ==
    (pc = "iter" /\ pc' = "iter") =>
        IF Len(yielded) < Ceil(Len(source), packet_size)
        THEN /\ last' # None
             /\ yielded' = Append(yielded, payload(last'.val))
        ELSE /\ last' = None
             /\ yielded' = yielded

\* C10: chunking sequence.  Pulling from to_packets(c) on a text of n bytes
\* yields exactly ceil(n / c) Packets and then nothing on every later pull;
\* at every step the payloads yielded so far followed by the remaining bytes
\* equal the original buffer; every payload is non-empty, every one but the
\* last has exactly c bytes, and an empty text yields no Packet.
C10_ChunkingSequence == []ChunkingInv /\ [][ChunkingStep]_vars

C10_Witness ==
    /\ pc = "iter"
    /\ last = None
    /\ Len(yielded) = 2
    /\ Len(yielded[2]) < packet_size

====
